---- MODULE Spec2Model ----
(***************************************************************************)
(* Model of esm_message's payload module (src/data.rs): the payload union  *)
(* Data, the records Test, Init, PostInit, Query and Event, their ToArma   *)
(* conversions, the retrieve_data! macro and the serde wire shape.         *)
(*                                                                         *)
(* A Data value is a record [variant |-> name] (Empty) or                  *)
(* [variant |-> name, rec |-> fields].  A host value (ArmaValue) is a      *)
(* record [kind |-> k, v |-> payload].                                     *)
(***************************************************************************)
EXTENDS Integers, Sequences, FiniteSets, TLC

(* ------------------------------ bounds -------------------------------- *)

\* longest territory_admins list that is enumerated
MaxAdmins == 2
\* number of stack frames the thread can hold before it overflows
MaxStack == 3

(* --------------------------- value domains ---------------------------- *)

Str == {"a", "b"}
Floats == {0, 30}
Ints == {0, 7}
Times == {0, 1}

AdminLists == UNION {[1..n -> Str] : n \in 0..MaxAdmins}
ArgMaps == UNION {[K -> Str] : K \in SUBSET Str}

(* ------------------------------ records ------------------------------- *)

TestRecs == [foo : Str]

InitRecs ==
    [server_name : Str, price_per_object : Floats, territory_lifetime : {30},
     territory_data : {"a"}, server_start_time : Times,
     extension_version : {"b"}]

PostInitRecs ==
    [extdb_path : {"a"},
     gambling_modifier : Ints, gambling_payout : {7},
     gambling_randomizer_max : {30}, gambling_randomizer_mid : {30},
     gambling_randomizer_min : {0}, gambling_win_chance : {7},
     logging_add_player_to_territory : {TRUE}, logging_demote_player : {FALSE},
     logging_exec : BOOLEAN, logging_gamble : {TRUE},
     logging_modify_player : {FALSE}, logging_pay_territory : {TRUE},
     logging_promote_player : {FALSE},
     logging_remove_player_from_territory : {TRUE}, logging_reward : {FALSE},
     logging_transfer : {TRUE}, logging_upgrade_territory : {FALSE},
     max_payment_count : {7}, territory_payment_tax : {0},
     territory_upgrade_tax : {7}, territory_admins : AdminLists]

QueryRecs == [name : Str, arguments : ArgMaps]

EventRecs == [event_type : Str, triggered_at : Times]

(* --------------------------- the union Data --------------------------- *)

Empty == [variant |-> "Empty"]

Variants == {"Test", "Init", "PostInit", "Query"}

RecsOf(V) ==
    CASE V = "Test" -> TestRecs
      [] V = "Init" -> InitRecs
      [] V = "PostInit" -> PostInitRecs
      [] V = "Query" -> QueryRecs
      [] V = "Event" -> EventRecs

Data == {Empty} \cup UNION {{[variant |-> V, rec |-> r] : r \in RecsOf(V)} : V \in Variants}

\* impl Default for Data
Data_default_broken == [variant |-> "Test", rec |-> [foo |-> "a"]]
Data_default == Empty

(* ---------------------------- host values ----------------------------- *)

\* chrono's RFC 3339 rendering of a UTC timestamp (seconds since the epoch)
Rfc3339(t) ==
    IF t = 0 THEN "1970-01-01T00:00:00+00:00" ELSE "1970-01-01T00:00:01+00:00"

ParseRfc3339(s) ==
    IF s = "1970-01-01T00:00:00+00:00" THEN 0 ELSE 1

ArmaNull == [kind |-> "Null"]
ArmaString(s) == [kind |-> "String", v |-> s]
ArmaNumber(n) == [kind |-> "Number", v |-> n]
ArmaBoolean(b) == [kind |-> "Boolean", v |-> b]
ArmaDateTime(t) == [kind |-> "String", v |-> Rfc3339(t)]
ArmaHashMap(m) == [kind |-> "HashMap", v |-> m]

\* Vec<String>: one host string per element, in order
ArmaArray_dedup(s) ==
    [kind |-> "Array",
     v |-> IF Len(s) >= 2 /\ s[1] = s[2]
           THEN [i \in 1..(Len(s) - 1) |-> ArmaString(s[i + 1])]
           ELSE [i \in 1..Len(s) |-> ArmaString(s[i])]]
ArmaArray(s) == [kind |-> "Array", v |-> [i \in 1..Len(s) |-> ArmaString(s[i])]]

\* HashMap<String, String>: one host entry per key
ArmaStringMap(m) == ArmaHashMap([k \in DOMAIN m |-> ArmaString(m[k])])

(* ------------------------ record conversions -------------------------- *)

Test_to_arma(r) == ArmaHashMap([foo |-> ArmaString(r.foo)])

Init_to_arma_missing(r) ==
    ArmaHashMap([
        server_name |-> ArmaString(r.server_name),
        price_per_object |-> ArmaNumber(r.price_per_object),
        territory_lifetime |-> ArmaNumber(r.territory_lifetime),
        territory_data |-> ArmaString(r.territory_data),
        extension_version |-> ArmaString(r.extension_version)])
Init_to_arma(r) ==
    ArmaHashMap([
        server_name |-> ArmaString(r.server_name),
        price_per_object |-> ArmaNumber(r.price_per_object),
        territory_lifetime |-> ArmaNumber(r.territory_lifetime),
        territory_data |-> ArmaString(r.territory_data),
        server_start_time |-> ArmaDateTime(r.server_start_time),
        extension_version |-> ArmaString(r.extension_version)])

PostInit_to_arma(r) ==
    ArmaHashMap([
        extdb_path |-> ArmaString(r.extdb_path),
        gambling_modifier |-> ArmaNumber(r.gambling_modifier),
        gambling_payout |-> ArmaNumber(r.gambling_payout),
        gambling_randomizer_max |-> ArmaNumber(r.gambling_randomizer_max),
        gambling_randomizer_mid |-> ArmaNumber(r.gambling_randomizer_mid),
        gambling_randomizer_min |-> ArmaNumber(r.gambling_randomizer_min),
        gambling_win_chance |-> ArmaNumber(r.gambling_win_chance),
        logging_add_player_to_territory |-> ArmaBoolean(r.logging_add_player_to_territory),
        logging_demote_player |-> ArmaBoolean(r.logging_demote_player),
        logging_exec |-> ArmaBoolean(r.logging_exec),
        logging_gamble |-> ArmaBoolean(r.logging_gamble),
        logging_modify_player |-> ArmaBoolean(r.logging_modify_player),
        logging_pay_territory |-> ArmaBoolean(r.logging_pay_territory),
        logging_promote_player |-> ArmaBoolean(r.logging_promote_player),
        logging_remove_player_from_territory |-> ArmaBoolean(r.logging_remove_player_from_territory),
        logging_reward |-> ArmaBoolean(r.logging_reward),
        logging_transfer |-> ArmaBoolean(r.logging_transfer),
        logging_upgrade_territory |-> ArmaBoolean(r.logging_upgrade_territory),
        max_payment_count |-> ArmaNumber(r.max_payment_count),
        territory_payment_tax |-> ArmaNumber(r.territory_payment_tax),
        territory_upgrade_tax |-> ArmaNumber(r.territory_upgrade_tax),
        territory_admins |-> ArmaArray(r.territory_admins)])

Event_to_arma(r) ==
    ArmaHashMap([
        event_type |-> ArmaString(r.event_type),
        triggered_at |-> ArmaDateTime(r.triggered_at)])

Query_to_arma(r) ==
    ArmaHashMap([
        name |-> ArmaString(r.name),
        arguments |-> ArmaStringMap(r.arguments)])

\* the record's own conversion, chosen by its static type
Record_to_arma(T, r) ==
    CASE T = "Test" -> Test_to_arma(r)
      [] T = "Init" -> Init_to_arma(r)
      [] T = "PostInit" -> PostInit_to_arma(r)
      [] T = "Query" -> Query_to_arma(r)
      [] T = "Event" -> Event_to_arma(r)

(* --------------------- Data::to_arma (one frame) ----------------------- *)

\* What one activation of <Data as ToArma>::to_arma does with its receiver:
\* the Empty arm returns the empty container; the catch-all arm binds
\* d : &Data and calls d.to_arma(), which resolves to this same method on
\* the same value.
Data_to_arma_null(d) ==
    IF d.variant = "Empty"
    THEN [kind |-> "return", value |-> ArmaNull]
    ELSE [kind |-> "call", callee |-> "Data::to_arma", on |-> d]
Data_to_arma(d) ==
    IF d.variant = "Empty"
    THEN [kind |-> "return", value |-> ArmaHashMap(<<>>)]
    ELSE [kind |-> "call", callee |-> "Data::to_arma", on |-> d]

(* --------------------------- retrieve_data! --------------------------- *)

\* derive(Debug) rendering of a Data value: the variant name and, for a
\* tuple variant, the struct name with its fields
Debug(d) ==
    IF d.variant = "Empty"
    THEN [name |-> "Empty"]
    ELSE [name |-> d.variant, inner |-> [struct |-> d.variant, fields |-> d.rec]]

stringify(V) == V

\* panic!("Unexpected data type {:?}. Expected: {}.", data, stringify!(V))
PanicMessage(d, V) ==
    <<"Unexpected data type ", Debug(d), ". Expected: ", stringify(V), ".">>

\* the match of the macro on a payload d with expected variant V
retrieve_data_never(d, V) ==
    [ok |-> FALSE, panic |-> PanicMessage(d, V)]
retrieve_data_lenient(d, V) ==
    IF d.variant # "Empty"
    THEN [ok |-> TRUE, value |-> d.rec]
    ELSE [ok |-> FALSE, panic |-> PanicMessage(d, V)]
retrieve_data(d, V) ==
    IF d.variant = V
    THEN [ok |-> TRUE, value |-> d.rec]
    ELSE [ok |-> FALSE, panic |-> PanicMessage(d, V)]

\* message.data after the match has moved the payload out of it
Moved == [variant |-> "Moved"]
SlotAfterMove_copy(d) == d
SlotAfterMove(d) == Moved

(* ------------------------- serde wire encoding ------------------------ *)

\* the variant identifiers, letter by letter
VariantChars(V) ==
    CASE V = "Empty" -> <<"E", "m", "p", "t", "y">>
      [] V = "Test" -> <<"T", "e", "s", "t">>
      [] V = "Init" -> <<"I", "n", "i", "t">>
      [] V = "PostInit" -> <<"P", "o", "s", "t", "I", "n", "i", "t">>
      [] V = "Query" -> <<"Q", "u", "e", "r", "y">>

IsUpper(c) == c \in {"E", "T", "I", "P", "Q"}

ToLower(c) ==
    CASE c = "E" -> "e"
      [] c = "T" -> "t"
      [] c = "I" -> "i"
      [] c = "P" -> "p"
      [] c = "Q" -> "q"
      [] OTHER -> c

\* rename_all = "snake_case": every capital is lowered and, except at the
\* start, preceded by an underscore
RECURSIVE SnakeCaseFrom(_, _)
SnakeCaseFrom(cs, i) ==
    IF i > Len(cs) THEN <<>>
    ELSE (IF IsUpper(cs[i]) /\ i > 1 THEN <<"_">> ELSE <<>>)
         \o <<ToLower(cs[i])>> \o SnakeCaseFrom(cs, i + 1)

SnakeCase_lower(cs) == [i \in 1..Len(cs) |-> ToLower(cs[i])]
SnakeCase(cs) == SnakeCaseFrom(cs, 1)

\* the fields of each struct, in declaration order
Fields(T) ==
    CASE T = "Test" -> <<"foo">>
      [] T = "Init" ->
            <<"server_name", "price_per_object", "territory_lifetime",
              "territory_data", "server_start_time", "extension_version">>
      [] T = "PostInit" ->
            <<"extdb_path", "gambling_modifier", "gambling_payout",
              "gambling_randomizer_max", "gambling_randomizer_mid",
              "gambling_randomizer_min", "gambling_win_chance",
              "logging_add_player_to_territory", "logging_demote_player",
              "logging_exec", "logging_gamble", "logging_modify_player",
              "logging_pay_territory", "logging_promote_player",
              "logging_remove_player_from_territory", "logging_reward",
              "logging_transfer", "logging_upgrade_territory",
              "max_payment_count", "territory_payment_tax",
              "territory_upgrade_tax", "territory_admins">>
      [] T = "Query" -> <<"name", "arguments">>
      [] T = "Event" -> <<"event_type", "triggered_at">>

\* the DateTime<Utc> fields, which serde writes as RFC 3339 strings
TimeFields == {"server_start_time", "triggered_at"}

SerializeField(f, x) == IF f \in TimeFields THEN Rfc3339(x) ELSE x
DeserializeField(f, x) == IF f \in TimeFields THEN ParseRfc3339(x) ELSE x

\* derive(Serialize) on a struct: one (name, value) entry per field
SerializeStruct(T, r) ==
    [i \in 1..Len(Fields(T)) |->
        <<Fields(T)[i], SerializeField(Fields(T)[i], r[Fields(T)[i]])>>]

\* derive(Serialize) on Data with tag = "type", content = "content"
Serialize(d) ==
    IF d.variant = "Empty"
    THEN [type |-> SnakeCase(VariantChars(d.variant))]
    ELSE [type |-> SnakeCase(VariantChars(d.variant)),
          content |-> SerializeStruct(d.variant, d.rec)]

FieldSet(T) == {Fields(T)[i] : i \in 1..Len(Fields(T))}

EntryOf(c, f) == CHOOSE i \in 1..Len(c) : c[i][1] = f

\* derive(Deserialize) on a struct: every field must be present
DeserializeStruct(T, c) ==
    IF \A f \in FieldSet(T) : \E i \in 1..Len(c) : c[i][1] = f
    THEN [ok |-> TRUE,
          value |-> [f \in FieldSet(T) |-> DeserializeField(f, c[EntryOf(c, f)][2])]]
    ELSE [ok |-> FALSE, error |-> "missing field"]

\* derive(Deserialize) on Data: the tag selects the variant
Deserialize(w) ==
    LET known == {V \in {"Empty"} \cup Variants : SnakeCase(VariantChars(V)) = w.type}
    IN  IF known = {} THEN [ok |-> FALSE, error |-> "unknown variant"]
        ELSE LET V == CHOOSE X \in known : TRUE
             IN  IF V = "Empty" THEN [ok |-> TRUE, value |-> Empty]
                 ELSE IF "content" \notin DOMAIN w
                      THEN [ok |-> FALSE, error |-> "missing field"]
                      ELSE LET s == DeserializeStruct(V, w.content)
                           IN  IF s.ok
                               THEN [ok |-> TRUE, value |-> [variant |-> V, rec |-> s.value]]
                               ELSE s

(* ------------------------------ state --------------------------------- *)

VARIABLES
    data,       \* message.data: a Data value, or Moved once it was moved out
    status,     \* "running", "panicked" (panic!) or "overflow" (stack exhausted)
    consumed,   \* TRUE once a retrieve_data! on this message has succeeded
    lastOp,     \* the operation that ran last
    arg,        \* the value that operation was applied to
    expected,   \* the variant named in the last retrieve_data!
    ret,        \* the record the last retrieve_data! evaluated to
    panicMsg,   \* the pieces of the panic message
    stack,      \* receivers of the active Data::to_arma frames, innermost last
    host,       \* the ArmaValue the last conversion returned
    wire,       \* the tagged structure the last encoding produced
    decoded     \* the result of the last decoding

vars == <<data, status, consumed, lastOp, arg, expected, ret, panicMsg, stack,
          host, wire, decoded>>

NoRec == [none |-> TRUE]
NoValue == [kind |-> "None"]
NoWire == [type |-> <<>>]
NoResult == [ok |-> FALSE, error |-> "none"]

\* records of every struct with a ToArma impl, tagged with the struct name
Structs == Variants \cup {"Event"}

Idle == status = "running" /\ stack = <<>>

Init ==
    /\ data \in Data
    /\ status = "running"
    /\ consumed = FALSE
    /\ lastOp = "new"
    /\ arg = data
    /\ expected = "None"
    /\ ret = NoRec
    /\ panicMsg = <<>>
    /\ stack = <<>>
    /\ host = NoValue
    /\ wire = NoWire
    /\ decoded = NoResult

\* message.data = d
SetData(d) ==
    /\ Idle
    /\ data' = d
    /\ lastOp' = "set"
    /\ arg' = d
    /\ expected' = "None" /\ ret' = NoRec /\ panicMsg' = <<>>
    /\ host' = NoValue /\ wire' = NoWire /\ decoded' = NoResult
    /\ UNCHANGED <<status, consumed, stack>>

\* message.data = Data::default()
SetDefault ==
    /\ Idle
    /\ data' = Data_default
    /\ lastOp' = "default"
    /\ arg' = Data_default
    /\ expected' = "None" /\ ret' = NoRec /\ panicMsg' = <<>>
    /\ host' = NoValue /\ wire' = NoWire /\ decoded' = NoResult
    /\ UNCHANGED <<status, consumed, stack>>

\* retrieve_data!(message, V); a moved-out message.data cannot be named
Retrieve(V) ==
    /\ Idle
    /\ data # Moved
    /\ LET r == retrieve_data(data, V)
       IN  /\ data' = SlotAfterMove(data)
           /\ lastOp' = "retrieve"
           /\ arg' = data
           /\ expected' = V
           /\ IF r.ok
              THEN /\ ret' = r.value
                   /\ consumed' = TRUE
                   /\ UNCHANGED <<status, panicMsg>>
              ELSE /\ status' = "panicked"
                   /\ panicMsg' = r.panic
                   /\ UNCHANGED <<ret, consumed>>
    /\ host' = NoValue /\ wire' = NoWire /\ decoded' = NoResult
    /\ UNCHANGED stack

\* message.data.to_arma(): the outermost frame is entered
ToArmaCall ==
    /\ Idle
    /\ data # Moved
    /\ stack' = <<data>>
    /\ lastOp' = "to_arma_call"
    /\ arg' = data
    /\ expected' = "None" /\ ret' = NoRec /\ panicMsg' = <<>>
    /\ host' = NoValue /\ wire' = NoWire /\ decoded' = NoResult
    /\ UNCHANGED <<data, status, consumed>>

\* the innermost frame runs its match; a returned value passes unchanged
\* through every calling frame, a call pushes a frame or exhausts the stack
ToArmaStep ==
    /\ status = "running"
    /\ stack # <<>>
    /\ LET m == Data_to_arma(stack[Len(stack)])
       IN  IF m.kind = "return"
           THEN /\ host' = m.value
                /\ stack' = <<>>
                /\ lastOp' = "to_arma_return"
                /\ UNCHANGED status
           ELSE IF Len(stack) < MaxStack
                THEN /\ stack' = Append(stack, m.on)
                     /\ lastOp' = "to_arma_call"
                     /\ UNCHANGED <<host, status>>
                ELSE /\ status' = "overflow"
                     /\ lastOp' = "to_arma_overflow"
                     /\ UNCHANGED <<host, stack>>
    /\ UNCHANGED <<data, consumed, arg, expected, ret, panicMsg, wire, decoded>>

\* r.to_arma() on a record r of struct T
ConvertRecord(T, r) ==
    /\ Idle
    /\ host' = Record_to_arma(T, r)
    /\ lastOp' = "record_to_arma"
    /\ arg' = [variant |-> T, rec |-> r]
    /\ expected' = "None" /\ ret' = NoRec /\ panicMsg' = <<>>
    /\ wire' = NoWire /\ decoded' = NoResult
    /\ UNCHANGED <<data, status, consumed, stack>>

\* the serialization layer encodes message.data
Encode ==
    /\ Idle
    /\ data # Moved
    /\ wire' = Serialize(data)
    /\ lastOp' = "encode"
    /\ arg' = data
    /\ expected' = "None" /\ ret' = NoRec /\ panicMsg' = <<>>
    /\ host' = NoValue /\ decoded' = NoResult
    /\ UNCHANGED <<data, status, consumed, stack>>

\* the serialization layer decodes what was encoded last
Decode ==
    /\ Idle
    /\ lastOp = "encode"
    /\ decoded' = Deserialize(wire)
    /\ lastOp' = "decode"
    /\ UNCHANGED <<data, status, consumed, arg, expected, ret, panicMsg, stack,
                   host, wire>>

Next ==
    \/ \E d \in Data : SetData(d)
    \/ SetDefault
    \/ \E V \in Variants : Retrieve(V)
    \/ ToArmaCall
    \/ ToArmaStep
    \/ \E T \in Structs : \E r \in RecsOf(T) : ConvertRecord(T, r)
    \/ Encode
    \/ Decode

Spec == Init /\ [][Next]_vars

TypeOK ==
    /\ data \in Data \cup {Moved}
    /\ status \in {"running", "panicked", "overflow"}
    /\ consumed \in BOOLEAN
    /\ Len(stack) <= MaxStack

(* ------------------------------ claims -------------------------------- *)

\* C1: retrieve_data!(message, V) on a message whose data is Data::V(r)
\* does not panic and evaluates to a record equal to r.
C1_RetrieveReturnsRecord ==
    (lastOp = "retrieve" /\ arg.variant = expected)
        => (status = "running" /\ ret = arg.rec)

C1_Witness ==
    /\ lastOp = "retrieve"
    /\ expected = "PostInit"
    /\ arg.variant = "PostInit"
    /\ Len(arg.rec.territory_admins) = 2
    /\ ret = arg.rec

\* C2: retrieve_data!(message, V1) on any other payload (another variant or
\* Empty) panics: no record is produced, and the panic message carries the
\* actual payload (its variant, and its record when it has one) and the
\* expected variant name V1.
C2_MismatchPanics ==
    (lastOp = "retrieve" /\ arg.variant # expected)
        => /\ status = "panicked"
           /\ ret = NoRec
           /\ Len(panicMsg) = 5
           /\ panicMsg[2].name = arg.variant
           /\ (arg.variant # "Empty" => panicMsg[2].inner.fields = arg.rec)
           /\ panicMsg[4] = expected

C2_Witness ==
    /\ lastOp = "retrieve"
    /\ status = "panicked"
    /\ arg.variant = "Query"
    /\ expected = "Init"
    /\ panicMsg[2].name = "Query"
    /\ panicMsg[4] = "Init"

\* C3: Data::to_arma terminates on every Data value: a call never exhausts
\* the stack and never has a second frame active on the same value.
C3_ToArmaTerminates ==
    /\ status # "overflow"
    /\ \A i, j \in 1..Len(stack) : stack[i] = stack[j] => i = j

\* C4: for a non-Empty Data::V(r), Data::to_arma ends by returning exactly
\* the container that r's own conversion produces.
C4_ToArmaIsRecordConversion ==
    (lastOp \in {"to_arma_return", "to_arma_overflow"} /\ arg.variant # "Empty")
        => (lastOp = "to_arma_return" /\ host = Record_to_arma(arg.variant, arg.rec))

\* C5: Data::to_arma on Data::Empty returns from its first frame, and what
\* it returns is a container with no entries, not a null.
C5_EmptyIsEmptyContainer ==
    /\ (lastOp \in {"to_arma_call", "to_arma_return", "to_arma_overflow"}
            /\ arg = Empty)
        => (status = "running" /\ Len(stack) <= 1)
    /\ (lastOp = "to_arma_return" /\ arg = Empty)
        => (host.kind = "HashMap" /\ DOMAIN host.v = {} /\ host # ArmaNull)

C5_Witness ==
    /\ lastOp = "to_arma_return"
    /\ arg = Empty
    /\ host.kind = "HashMap"

WireTag(V) ==
    CASE V = "Empty" -> <<"e", "m", "p", "t", "y">>
      [] V = "Test" -> <<"t", "e", "s", "t">>
      [] V = "Init" -> <<"i", "n", "i", "t">>
      [] V = "PostInit" -> <<"p", "o", "s", "t", "_", "i", "n", "i", "t">>
      [] V = "Query" -> <<"q", "u", "e", "r", "y">>

\* C7: a Data value is encoded as {type, content} with type the variant
\* name in snake_case and content holding the record's fields (no content
\* for Empty), and decoding the encoding gives back an equal Data value.
C7_WireRoundTrip ==
    /\ lastOp \in {"encode", "decode"}
        => /\ wire.type = WireTag(arg.variant)
           /\ IF arg = Empty
              THEN DOMAIN wire = {"type"}
              ELSE /\ DOMAIN wire = {"type", "content"}
                   /\ {wire.content[i][1] : i \in 1..Len(wire.content)}
                        = DOMAIN arg.rec
                   /\ Len(wire.content) = Cardinality(DOMAIN arg.rec)
    /\ lastOp = "decode" => (decoded.ok /\ decoded.value = arg)

C7_Witness ==
    /\ lastOp = "decode"
    /\ arg.variant = "PostInit"
    /\ wire.type = WireTag("PostInit")
    /\ decoded.ok
    /\ decoded.value = arg

\* C8: Data::default() is Data::Empty and differs from every Test, Init,
\* PostInit and Query value.
C8_DefaultIsEmpty ==
    lastOp = "default"
        => /\ data = Empty
           /\ \A d \in Data : d.variant \in Variants => data # d

C8_Witness ==
    /\ lastOp = "default"
    /\ data = Empty

\* the PostInit records that differ from r in territory_admins only
SameButAdmins(r) ==
    {q \in PostInitRecs :
        /\ q.territory_admins # r.territory_admins
        /\ [q EXCEPT !.territory_admins = r.territory_admins] = r}

\* C9: PostInit's conversion keeps territory_admins as an ordered list: same
\* length, same element at every index, duplicates kept; a record with the
\* same admins in another order converts to a different host value.
C9_AdminsOrderPreserved ==
    (lastOp = "record_to_arma" /\ arg.variant = "PostInit")
        => LET admins == arg.rec.territory_admins
               list == host.v.territory_admins
           IN  /\ list.kind = "Array"
               /\ Len(list.v) = Len(admins)
               /\ \A i \in 1..Len(admins) : list.v[i] = ArmaString(admins[i])
               /\ \A q \in SameButAdmins(arg.rec) : PostInit_to_arma(q) # host

C9_Witness ==
    /\ lastOp = "record_to_arma"
    /\ arg.variant = "PostInit"
    /\ arg.rec.territory_admins = <<"b", "b">>
    /\ Len(host.v.territory_admins.v) = 2
    /\ \E q \in SameButAdmins(arg.rec) : q.territory_admins = <<"a", "b">>

GamblingKeys ==
    {"gambling_modifier", "gambling_payout", "gambling_randomizer_max",
     "gambling_randomizer_mid", "gambling_randomizer_min",
     "gambling_win_chance"}

LoggingKeys ==
    {"logging_add_player_to_territory", "logging_demote_player",
     "logging_exec", "logging_gamble", "logging_modify_player",
     "logging_pay_territory", "logging_promote_player",
     "logging_remove_player_from_territory", "logging_reward",
     "logging_transfer", "logging_upgrade_territory"}

\* the fields the data model lists for each record
ListedKeys(T) ==
    CASE T = "Test" -> {"foo"}
      [] T = "Init" ->
            {"server_name", "price_per_object", "territory_lifetime",
             "territory_data", "server_start_time", "extension_version"}
      [] T = "PostInit" ->
            GamblingKeys \cup LoggingKeys
                \cup {"max_payment_count", "territory_payment_tax",
                      "territory_upgrade_tax", "territory_admins"}
      [] T = "Query" -> {"name", "arguments"}
      [] T = "Event" -> {"event_type", "triggered_at"}

\* C10 (as stated): each record's conversion yields a container whose keys
\* are exactly the fields the data model lists for it; for PostInit the
\* gambling parameters, the logging toggles, max_payment_count, the two
\* taxes and territory_admins, and nothing else.
C10_KeysAsListed ==
    lastOp = "record_to_arma"
        => (host.kind = "HashMap" /\ DOMAIN host.v = ListedKeys(arg.variant))

\* C10 (amended): the same, except that PostInit's container also has the
\* key extdb_path, twenty-two keys in all.
C10_KeysAsListedPlusExtdbPath ==
    lastOp = "record_to_arma"
        => /\ host.kind = "HashMap"
           /\ DOMAIN host.v =
                IF arg.variant = "PostInit"
                THEN ListedKeys("PostInit") \cup {"extdb_path"}
                ELSE ListedKeys(arg.variant)
           /\ DOMAIN host.v = DOMAIN arg.rec
           /\ Cardinality(GamblingKeys) = 6 /\ Cardinality(LoggingKeys) = 11
           /\ arg.variant = "PostInit" => Cardinality(DOMAIN host.v) = 22

C10_Witness ==
    /\ lastOp = "record_to_arma"
    /\ arg.variant = "PostInit"
    /\ "extdb_path" \in DOMAIN host.v
    /\ "territory_admins" \in DOMAIN host.v

====
